---------------------------- MODULE Spec2Model ----------------------------
(***************************************************************************)
(* A model of the MEX gateway CIRS2GCRS (mexFunction of CIRS2GCRS.c):      *)
(* argument validation, resolution of the celestial pole offsets (either   *)
(* read from the argument list or looked up with getEOP after TT->TAI->UTC *)
(* conversion), construction of the rotation matrix and its application to *)
(* every vector of the batch.                                              *)
(*                                                                         *)
(* Doubles are modelled by integers.  A Matlab array is a record           *)
(* [cls, m, n, data] whose data is the column-major buffer mxGetData       *)
(* returns.  Every variable is a function of the invocation, so that       *)
(* several invocations can be interleaved; the locals of mexFunction are   *)
(* the fields of frame[self].  A local that has not been assigned yet is   *)
(* the empty sequence; the pointer xVec is held as the index of the        *)
(* argument whose buffer it designates.                                    *)
(***************************************************************************)
EXTENDS Integers, Sequences, FiniteSets, TLC

VARIABLES
    pc,      \* position of each invocation in mexFunction
    nlhs,    \* number of outputs the caller asked for
    prhs,    \* the caller's argument list (nrhs is its length)
    frame,   \* the automatic variables of mexFunction
    plhs,    \* the caller's output slots, <<>> while unassigned
    msg,     \* what mexErrMsgTxt / mexWarnMsgTxt reported
    calls,   \* the library routines called so far, in order
    ext      \* what the environment answered (statuses, getEOP, stray memory)

vars == <<pc, nlhs, prhs, frame, plhs, msg, calls, ext>>

---------------------------------------------------------------------------
(* Bounds of the model *)

MaxVec == 2

MaxSeed == 2

MaxT == 1

(* Program constants *)

\* prhs[4]: the index the explicit-offset branch reads
PoleArgIndex == 4

\* prhs[3]: the index the emptiness test reads
EmptyArgIndex == 3

\* TT-TAI and TAI-UTC in the model's time unit
TTMTAI == 32

TAIMUTC == 37

---------------------------------------------------------------------------
(* Matlab arrays *)

DoubleArr(m, n, d) == [cls |-> "double", m |-> m, n |-> n, data |-> d]

Scalar(v) == DoubleArr(1, 1, <<v>>)

mxGetM(a) == a.m

mxGetN(a) == a.n

mxIsEmpty(a) == a.m * a.n = 0

mxGetData(a) == a.data

\* checkRealDoubleArray passes exactly for a real array of doubles
IsRealDouble(a) == a.cls = "double"

getDoubleFromMatlab(a) == a.data[1]

mxCreateDoubleMatrix(m, n) == DoubleArr(m, n, [k \in 1..(m * n) |-> 0])

---------------------------------------------------------------------------
(* The inputs a caller may supply; the two date arguments are always       *)
(* scalar doubles, so getDoubleFromMatlab succeeds on them                 *)

Rows == {2, 3, 6}

NrhsRange == 2..5

NlhsRange == 0..3

VecOf(seed, d) == [k \in 1..d |-> ((seed * k) % 5) - 2]

BatchData(seeds, d) ==
    [k \in 1..(d * Len(seeds)) |-> VecOf(seeds[((k - 1) \div d) + 1], d)[((k - 1) % d) + 1]]

SeedSeqs == UNION {[1..n -> 1..MaxSeed] : n \in 0..MaxVec}

Batches ==
    {DoubleArr(d, Len(s), BatchData(s, d)) : d \in Rows, s \in SeedSeqs}
        \cup {[cls |-> "single", m |-> 3, n |-> 1, data |-> <<0, 0, 0>>]}

Jul1Vals == {100}

Jul2Vals == 0..MaxT

PoleArgs ==
    {DoubleArr(0, 0, <<>>), DoubleArr(2, 1, <<1, 2>>), DoubleArr(1, 2, <<2, 1>>),
     DoubleArr(3, 1, <<1, 2, 3>>)}

ArgLists ==
    {<<b, Scalar(j1)>> : b \in Batches, j1 \in Jul1Vals}
        \cup {<<b, Scalar(j1), Scalar(j2)>> : b \in Batches, j1 \in Jul1Vals, j2 \in Jul2Vals}
        \cup {<<b, Scalar(j1), Scalar(j2), p>> :
                  b \in Batches, j1 \in Jul1Vals, j2 \in Jul2Vals, p \in PoleArgs}
        \cup {<<b, Scalar(j1), Scalar(j2), p, Scalar(0)>> :
                  b \in Batches, j1 \in Jul1Vals, j2 \in Jul2Vals, p \in PoleArgs}

---------------------------------------------------------------------------
(* The environment *)

\* What lies behind the end of the argument list: a pointer that cannot be
\* dereferenced, or whatever array the stray pointer happens to designate.
Garbage ==
    {[cls |-> "wild", m |-> 0, n |-> 0, data |-> <<>>],
     [cls |-> "single", m |-> 2, n |-> 1, data |-> <<8, 9>>],
     DoubleArr(2, 1, <<8, 9>>), DoubleArr(1, 2, <<1, 2>>), DoubleArr(3, 1, <<8, 9, 8>>)}

\* prhs[k] in C: the argument when k is inside the list, stray memory otherwise
ArgAt(self, k) == IF k < Len(prhs[self]) THEN {prhs[self][k + 1]} ELSE Garbage

TttaiStatus == {0, -1}

TaiutcStatus == {-1, 0, 1}

EOPResponses ==
    {[throws |-> FALSE, polar |-> DoubleArr(2, 1, <<7, 8>>), pole |-> p] :
        p \in {DoubleArr(2, 1, <<3, 4>>), DoubleArr(1, 2, <<3, 4>>),
               DoubleArr(3, 1, <<3, 4, 5>>),
               [cls |-> "single", m |-> 2, n |-> 1, data |-> <<3, 4>>]}}
        \cup {[throws |-> TRUE, polar |-> DoubleArr(0, 0, <<>>), pole |-> DoubleArr(0, 0, <<>>)]}

---------------------------------------------------------------------------
(* The SOFA routines, over integers *)

\* TAI = TT - (TT-TAI), the offset applied to the second part of the date
iauTttai(tt1, tt2) == <<tt1, tt2 - TTMTAI>>

\* UTC = TAI - (TAI-UTC)
iauTaiutc(tai1, tai2) == <<tai1, tai2 - TAIMUTC>>

\* CIP coordinates and CIO locator: a function of the date tt1+tt2 only
iauXys06a(tt1, tt2) ==
    [x |-> (tt1 + tt2) % 7, y |-> (tt1 + tt2) % 5, s |-> (tt1 + tt2) % 3]

\* celestial-to-intermediate matrix from x, y, s (first order in x, y, s)
iauC2ixys(x, y, s) == <<<<1, s, -x>>, <<-s, 1, -y>>, <<x, y, 1>>>>

iauTr(r) == [i \in 1..3 |-> [j \in 1..3 |-> r[j][i]]]

iauRxp(r, p) == [j \in 1..3 |-> r[j][1] * p[1] + r[j][2] * p[2] + r[j][3] * p[3]]

\* three doubles at pointer base+off, and the buffer after storing three there
Load3(mem, off) == <<mem[off + 1], mem[off + 2], mem[off + 3]>>

Store3(mem, off, v) ==
    [k \in 1..Len(mem) |-> IF k > off /\ k <= off + 3 THEN v[k - off] ELSE mem[k]]

---------------------------------------------------------------------------
(* Initial state: nothing has run yet *)

Frame0 ==
    [numRow |-> <<>>, numVec |-> <<>>, xVec |-> <<>>, TT1 |-> <<>>, TT2 |-> <<>>,
     dX |-> <<>>, dY |-> <<>>, JulUTC |-> <<>>, GCRS2CIRS |-> <<>>, CIRS2GCRS |-> <<>>,
     retMat |-> <<>>, curVec |-> <<>>]

Ext0 == [tai |-> <<>>, utc |-> <<>>, eopKey |-> <<>>, eop |-> <<>>, stray |-> <<>>, read |-> {}]

Msg0 == [err |-> "", warn |-> <<>>]

\* The invocations; one that is not made stays "idle" with no arguments
Calls == {1, 2}

Init ==
    /\ pc = [c \in Calls |-> IF c = 1 THEN "start" ELSE "idle"]
    /\ \E nl \in NlhsRange : nlhs = [c \in Calls |-> IF c = 1 THEN nl ELSE 0]
    /\ \E al \in ArgLists : prhs = [c \in Calls |-> IF c = 1 THEN al ELSE <<>>]
    /\ frame = [c \in Calls |-> Frame0]
    /\ plhs = [c \in Calls |-> <<<<>>, <<>>>>]
    /\ msg = [c \in Calls |-> Msg0]
    /\ calls = [c \in Calls |-> <<>>]
    /\ ext = [c \in Calls |-> Ext0]

Fail(self, text) ==
    /\ pc' = [pc EXCEPT ![self] = "error"]
    /\ msg' = [msg EXCEPT ![self].err = text]

---------------------------------------------------------------------------
(* A variant of CheckArgs that creates and assigns the output batch as soon *)
(* as the dimensions are known, before the dimension is validated.         *)
CheckArgsOutFirst(self) ==
    /\ pc[self] = "start"
    /\ LET nrhs == Len(prhs[self])
           x == prhs[self][1]
       IN  IF nrhs < 3 \/ nrhs > 4
           THEN Fail(self, "Wrong number of inputs") /\ UNCHANGED <<frame, ext, plhs>>
           ELSE IF nlhs[self] > 2
           THEN Fail(self, "Wrong number of outputs.") /\ UNCHANGED <<frame, ext, plhs>>
           ELSE IF ~IsRealDouble(x)
           THEN /\ Fail(self, "checkRealDoubleArray")
                /\ ext' = [ext EXCEPT ![self].read = {0}]
                /\ UNCHANGED <<frame, plhs>>
           ELSE IF ~(mxGetM(x) = 3 \/ mxGetM(x) = 6)
           THEN /\ Fail(self, "The input vector has a bad dimensionality.")
                /\ ext' = [ext EXCEPT ![self].read = {0}]
                /\ plhs' = [plhs EXCEPT ![self][1] = <<mxCreateDoubleMatrix(mxGetM(x), mxGetN(x))>>]
                /\ UNCHANGED frame
           ELSE /\ frame' = [frame EXCEPT ![self].numRow = <<mxGetM(x)>>,
                                          ![self].numVec = <<mxGetN(x)>>,
                                          ![self].xVec = <<0>>,
                                          ![self].TT1 = <<getDoubleFromMatlab(prhs[self][2])>>,
                                          ![self].TT2 = <<getDoubleFromMatlab(prhs[self][3])>>]
                /\ ext' = [ext EXCEPT ![self].read =
                              IF nrhs < 4 THEN {0, 1, 2} ELSE {0, 1, 2, EmptyArgIndex}]
                /\ pc' = [pc EXCEPT ![self] =
                              IF nrhs < 4 \/ mxIsEmpty(prhs[self][EmptyArgIndex + 1])
                              THEN "tttai" ELSE "offsets"]
                /\ UNCHANGED <<msg, plhs>>
    /\ UNCHANGED <<nlhs, prhs, calls>>

(* Lines 67-89: validation of the arguments and choice of the branch *)

CheckArgs(self) ==
    /\ pc[self] = "start"
    /\ LET nrhs == Len(prhs[self])
           x == prhs[self][1]
       IN  IF nrhs < 3 \/ nrhs > 4
           THEN Fail(self, "Wrong number of inputs") /\ UNCHANGED <<frame, ext>>
           ELSE IF nlhs[self] > 2
           THEN Fail(self, "Wrong number of outputs.") /\ UNCHANGED <<frame, ext>>
           ELSE IF ~IsRealDouble(x)
           THEN /\ Fail(self, "checkRealDoubleArray")
                /\ ext' = [ext EXCEPT ![self].read = {0}]
                /\ UNCHANGED frame
           ELSE IF ~(mxGetM(x) = 3 \/ mxGetM(x) = 6)
           THEN /\ Fail(self, "The input vector has a bad dimensionality.")
                /\ ext' = [ext EXCEPT ![self].read = {0}]
                /\ UNCHANGED frame
           ELSE /\ frame' = [frame EXCEPT ![self].numRow = <<mxGetM(x)>>,
                                          ![self].numVec = <<mxGetN(x)>>,
                                          ![self].xVec = <<0>>,
                                          ![self].TT1 = <<getDoubleFromMatlab(prhs[self][2])>>,
                                          ![self].TT2 = <<getDoubleFromMatlab(prhs[self][3])>>]
                /\ ext' = [ext EXCEPT ![self].read =
                              IF nrhs < 4 THEN {0, 1, 2} ELSE {0, 1, 2, EmptyArgIndex}]
                /\ pc' = [pc EXCEPT ![self] =
                              IF nrhs < 4 \/ mxIsEmpty(prhs[self][EmptyArgIndex + 1])
                              THEN "tttai" ELSE "offsets"]
                /\ UNCHANGED msg
    /\ UNCHANGED <<nlhs, prhs, plhs, calls>>

(* Lines 98-101: TT -> TAI *)
Tttai(self) ==
    /\ pc[self] = "tttai"
    /\ \E st \in TttaiStatus :
          /\ frame' = [frame EXCEPT ![self].JulUTC =
                           iauTttai(frame[self].TT1[1], frame[self].TT2[1])]
          /\ ext' = [ext EXCEPT ![self].tai = <<st>>]
          /\ IF st # 0
             THEN Fail(self, "An error occurred computing TAI.")
             ELSE pc' = [pc EXCEPT ![self] = "taiutc"] /\ UNCHANGED msg
    /\ calls' = [calls EXCEPT ![self] = Append(@, "iauTttai")]
    /\ UNCHANGED <<nlhs, prhs, plhs>>

(* A variant of Taiutc that treats the dubious status as fatal too *)
TaiutcDubiousFatal(self) ==
    /\ pc[self] = "taiutc"
    /\ \E st \in TaiutcStatus :
          /\ frame' = [frame EXCEPT ![self].JulUTC =
                           iauTaiutc(frame[self].JulUTC[1], frame[self].JulUTC[2])]
          /\ ext' = [ext EXCEPT ![self].utc = <<st>>]
          /\ IF st = 1
             THEN /\ msg' = [msg EXCEPT ![self].warn = Append(@, "Dubious Date entered."),
                                        ![self].err = "Unacceptable date entered"]
                  /\ pc' = [pc EXCEPT ![self] = "error"]
             ELSE IF st = -1
             THEN Fail(self, "Unacceptable date entered")
             ELSE pc' = [pc EXCEPT ![self] = "geteop"] /\ UNCHANGED msg
    /\ calls' = [calls EXCEPT ![self] = Append(@, "iauTaiutc")]
    /\ UNCHANGED <<nlhs, prhs, plhs>>

(* A variant of Taiutc that only warns about an unacceptable date *)
TaiutcNoAbort(self) ==
    /\ pc[self] = "taiutc"
    /\ \E st \in TaiutcStatus :
          /\ frame' = [frame EXCEPT ![self].JulUTC =
                           iauTaiutc(frame[self].JulUTC[1], frame[self].JulUTC[2])]
          /\ ext' = [ext EXCEPT ![self].utc = <<st>>]
          /\ IF st = 1
             THEN msg' = [msg EXCEPT ![self].warn = Append(@, "Dubious Date entered.")]
             ELSE IF st = -1
             THEN msg' = [msg EXCEPT ![self].warn = Append(@, "Unacceptable date entered")]
             ELSE UNCHANGED msg
          /\ pc' = [pc EXCEPT ![self] = "geteop"]
    /\ calls' = [calls EXCEPT ![self] = Append(@, "iauTaiutc")]
    /\ UNCHANGED <<nlhs, prhs, plhs>>

(* Lines 102-112: TAI -> UTC, in place *)
Taiutc(self) ==
    /\ pc[self] = "taiutc"
    /\ \E st \in TaiutcStatus :
          /\ frame' = [frame EXCEPT ![self].JulUTC =
                           iauTaiutc(frame[self].JulUTC[1], frame[self].JulUTC[2])]
          /\ ext' = [ext EXCEPT ![self].utc = <<st>>]
          /\ IF st = 1
             THEN /\ msg' = [msg EXCEPT ![self].warn = Append(@, "Dubious Date entered.")]
                  /\ pc' = [pc EXCEPT ![self] = "geteop"]
             ELSE IF st = -1
             THEN Fail(self, "Unacceptable date entered")
             ELSE pc' = [pc EXCEPT ![self] = "geteop"] /\ UNCHANGED msg
    /\ calls' = [calls EXCEPT ![self] = Append(@, "iauTaiutc")]
    /\ UNCHANGED <<nlhs, prhs, plhs>>

(* A variant of GetEOP that accepts a 1x2 response as the explicit branch does *)
GetEOPAnyPair(self) ==
    /\ pc[self] = "geteop"
    /\ \E r \in EOPResponses :
          /\ ext' = [ext EXCEPT ![self].eopKey = frame[self].JulUTC, ![self].eop = <<r>>]
          /\ IF r.throws
             THEN Fail(self, "getEOP") /\ UNCHANGED frame
             ELSE IF ~IsRealDouble(r.pole)
             THEN Fail(self, "checkRealDoubleArray") /\ UNCHANGED frame
             ELSE IF mxGetM(r.pole) * mxGetN(r.pole) # 2
             THEN Fail(self, "Error using the getEOP function.") /\ UNCHANGED frame
             ELSE /\ frame' = [frame EXCEPT ![self].dX = <<mxGetData(r.pole)[1]>>,
                                            ![self].dY = <<mxGetData(r.pole)[2]>>]
                  /\ pc' = [pc EXCEPT ![self] = "build"]
                  /\ UNCHANGED msg
    /\ calls' = [calls EXCEPT ![self] = Append(@, "getEOP")]
    /\ UNCHANGED <<nlhs, prhs, plhs>>

(* Lines 114-137: the getEOP lookup; retVals[0] is destroyed unread *)
GetEOP(self) ==
    /\ pc[self] = "geteop"
    /\ \E r \in EOPResponses :
          /\ ext' = [ext EXCEPT ![self].eopKey = frame[self].JulUTC, ![self].eop = <<r>>]
          /\ IF r.throws
             THEN Fail(self, "getEOP") /\ UNCHANGED frame
             ELSE IF ~IsRealDouble(r.pole)
             THEN Fail(self, "checkRealDoubleArray") /\ UNCHANGED frame
             ELSE IF mxGetM(r.pole) # 2 \/ mxGetN(r.pole) # 1
             THEN Fail(self, "Error using the getEOP function.") /\ UNCHANGED frame
             ELSE /\ frame' = [frame EXCEPT ![self].dX = <<mxGetData(r.pole)[1]>>,
                                            ![self].dY = <<mxGetData(r.pole)[2]>>]
                  /\ pc' = [pc EXCEPT ![self] = "build"]
                  /\ UNCHANGED msg
    /\ calls' = [calls EXCEPT ![self] = Append(@, "getEOP")]
    /\ UNCHANGED <<nlhs, prhs, plhs>>

(* Lines 139-153: the explicit celestial pole offsets, read from prhs[4] *)
Offsets(self) ==
    /\ pc[self] = "offsets"
    /\ \E a \in ArgAt(self, PoleArgIndex) :
          /\ ext' = [ext EXCEPT ![self].read = @ \cup {PoleArgIndex},
                                ![self].stray =
                                    IF PoleArgIndex < Len(prhs[self]) THEN <<>> ELSE <<a>>]
          /\ IF a.cls = "wild"
             THEN Fail(self, "segmentation violation") /\ UNCHANGED frame
             ELSE IF ~IsRealDouble(a)
             THEN Fail(self, "checkRealDoubleArray") /\ UNCHANGED frame
             ELSE IF (mxGetM(a) = 2 /\ mxGetN(a) = 1) \/ (mxGetM(a) = 1 /\ mxGetN(a) = 2)
             THEN /\ frame' = [frame EXCEPT ![self].dX = <<mxGetData(a)[1]>>,
                                            ![self].dY = <<mxGetData(a)[2]>>]
                  /\ pc' = [pc EXCEPT ![self] = "build"]
                  /\ UNCHANGED msg
             ELSE Fail(self, "The celestial pole offsets have the wrong dimensionality.")
                      /\ UNCHANGED frame
    /\ UNCHANGED <<nlhs, prhs, plhs, calls>>

(* A variant of BuildRot whose matrices have static storage: one buffer for *)
(* all invocations.                                                        *)
BuildRotStatic(self) ==
    /\ pc[self] = "build"
    /\ LET xys == iauXys06a(frame[self].TT1[1], frame[self].TT2[1])
           G == iauC2ixys(xys.x + frame[self].dX[1], xys.y + frame[self].dY[1], xys.s)
       IN  frame' = [c \in Calls |->
                        IF c = self \/ frame[c].CIRS2GCRS # <<>>
                        THEN [frame[c] EXCEPT !.GCRS2CIRS = G, !.CIRS2GCRS = iauTr(G)]
                        ELSE frame[c]]
    /\ calls' = [calls EXCEPT ![self] = @ \o <<"iauXys06a", "iauC2ixys", "iauTr">>]
    /\ pc' = [pc EXCEPT ![self] = "alloc"]
    /\ UNCHANGED <<nlhs, prhs, plhs, msg, ext>>

(* Lines 156-173: the rotation matrix *)
BuildRot(self) ==
    /\ pc[self] = "build"
    /\ LET xys == iauXys06a(frame[self].TT1[1], frame[self].TT2[1])
           G == iauC2ixys(xys.x + frame[self].dX[1], xys.y + frame[self].dY[1], xys.s)
       IN  frame' = [frame EXCEPT ![self].GCRS2CIRS = G, ![self].CIRS2GCRS = iauTr(G)]
    /\ calls' = [calls EXCEPT ![self] = @ \o <<"iauXys06a", "iauC2ixys", "iauTr">>]
    /\ pc' = [pc EXCEPT ![self] = "alloc"]
    /\ UNCHANGED <<nlhs, prhs, plhs, msg, ext>>

(* A variant of Alloc that sizes the buffer for positions only *)
AllocRows3(self) ==
    /\ pc[self] = "alloc"
    /\ frame' = [frame EXCEPT ![self].retMat =
                     <<mxCreateDoubleMatrix(3, frame[self].numVec[1])>>,
                              ![self].curVec = <<0>>]
    /\ pc' = [pc EXCEPT ![self] = "loop"]
    /\ UNCHANGED <<nlhs, prhs, plhs, msg, calls, ext>>

(* Lines 176-181: the return buffer, and the loop's initialisation *)
Alloc(self) ==
    /\ pc[self] = "alloc"
    /\ frame' = [frame EXCEPT ![self].retMat =
                     <<mxCreateDoubleMatrix(frame[self].numRow[1], frame[self].numVec[1])>>,
                              ![self].curVec = <<0>>]
    /\ pc' = [pc EXCEPT ![self] = "loop"]
    /\ UNCHANGED <<nlhs, prhs, plhs, msg, calls, ext>>

(* A variant of TransformVec that steps through the buffers by 3 doubles *)
TransformVecStride3(self) ==
    /\ pc[self] = "loop"
    /\ frame[self].curVec[1] < frame[self].numVec[1]
    /\ LET f == frame[self]
           numRow == f.numRow[1]
           curVec == f.curVec[1]
           xVec == mxGetData(prhs[self][f.xVec[1] + 1])
           pos == Store3(f.retMat[1].data, 3 * curVec,
                         iauRxp(f.CIRS2GCRS, Load3(xVec, 3 * curVec)))
           vel == Store3(pos, 3 * curVec + 3,
                         iauRxp(f.CIRS2GCRS, Load3(xVec, 3 * curVec + 3)))
       IN  /\ frame' = [frame EXCEPT ![self].retMat[1].data = IF numRow > 3 THEN vel ELSE pos,
                                     ![self].curVec = <<curVec + 1>>]
           /\ calls' = [calls EXCEPT ![self] =
                           @ \o (IF numRow > 3 THEN <<"iauRxp", "iauRxp">> ELSE <<"iauRxp">>)]
    /\ UNCHANGED <<pc, nlhs, prhs, plhs, msg, ext>>

(* Lines 181-193: one iteration of the loop over the batch *)
TransformVec(self) ==
    /\ pc[self] = "loop"
    /\ frame[self].curVec[1] < frame[self].numVec[1]
    /\ LET f == frame[self]
           numRow == f.numRow[1]
           curVec == f.curVec[1]
           xVec == mxGetData(prhs[self][f.xVec[1] + 1])
           pos == Store3(f.retMat[1].data, numRow * curVec,
                         iauRxp(f.CIRS2GCRS, Load3(xVec, numRow * curVec)))
           vel == Store3(pos, numRow * curVec + 3,
                         iauRxp(f.CIRS2GCRS, Load3(xVec, numRow * curVec + 3)))
       IN  /\ frame' = [frame EXCEPT ![self].retMat[1].data = IF numRow > 3 THEN vel ELSE pos,
                                     ![self].curVec = <<curVec + 1>>]
           /\ calls' = [calls EXCEPT ![self] =
                           @ \o (IF numRow > 3 THEN <<"iauRxp", "iauRxp">> ELSE <<"iauRxp">>)]
    /\ UNCHANGED <<pc, nlhs, prhs, plhs, msg, ext>>

(* Line 195: the loop has ended, the batch is handed to the caller *)
AssignOut(self) ==
    /\ pc[self] = "loop"
    /\ ~(frame[self].curVec[1] < frame[self].numVec[1])
    /\ plhs' = [plhs EXCEPT ![self][1] = frame[self].retMat]
    /\ pc' = [pc EXCEPT ![self] = "rot"]
    /\ UNCHANGED <<nlhs, prhs, frame, msg, calls, ext>>

(* A variant of RotOut that fills the returned array row by row *)
RotOutRowMajor(self) ==
    /\ pc[self] = "rot"
    /\ IF nlhs[self] > 1
       THEN plhs' = [plhs EXCEPT ![self][2] =
                        <<DoubleArr(3, 3,
                            [k \in 1..9 |->
                                frame[self].CIRS2GCRS[((k - 1) \div 3) + 1][((k - 1) % 3) + 1]])>>]
       ELSE UNCHANGED plhs
    /\ pc' = [pc EXCEPT ![self] = "done"]
    /\ UNCHANGED <<nlhs, prhs, frame, msg, calls, ext>>

(* Lines 198-210: the rotation matrix, when asked for *)
RotOut(self) ==
    /\ pc[self] = "rot"
    /\ IF nlhs[self] > 1
       THEN plhs' = [plhs EXCEPT ![self][2] =
                        <<DoubleArr(3, 3,
                            [k \in 1..9 |->
                                frame[self].CIRS2GCRS[((k - 1) % 3) + 1][((k - 1) \div 3) + 1]])>>]
       ELSE UNCHANGED plhs
    /\ pc' = [pc EXCEPT ![self] = "done"]
    /\ UNCHANGED <<nlhs, prhs, frame, msg, calls, ext>>

Next ==
    \/ \E self \in Calls : CheckArgs(self)
    \/ \E self \in Calls : Tttai(self)
    \/ \E self \in Calls : Taiutc(self)
    \/ \E self \in Calls : GetEOP(self)
    \/ \E self \in Calls : Offsets(self)
    \/ \E self \in Calls : BuildRot(self)
    \/ \E self \in Calls : Alloc(self)
    \/ \E self \in Calls : TransformVec(self)
    \/ \E self \in Calls : AssignOut(self)
    \/ \E self \in Calls : RotOut(self)

Spec == Init /\ [][Next]_vars

---------------------------------------------------------------------------
(* Two invocations with distinct arguments, their steps interleaved *)

ConcArgs ==
    {[nl |-> 2, al |-> <<DoubleArr(3, 2, BatchData(<<1, 2>>, 3)), Scalar(100), Scalar(0)>>],
     [nl |-> 2, al |-> <<DoubleArr(6, 1, BatchData(<<2>>, 6)), Scalar(100), Scalar(1),
                         DoubleArr(2, 1, <<1, 2>>)>>],
     [nl |-> 1, al |-> <<DoubleArr(3, 1, BatchData(<<2>>, 3)), Scalar(100), Scalar(1),
                         DoubleArr(0, 0, <<>>)>>],
     [nl |-> 1, al |-> <<DoubleArr(2, 1, BatchData(<<1>>, 2)), Scalar(100), Scalar(0)>>]}

ConcInit ==
    /\ pc = [c \in Calls |-> "start"]
    /\ \E a \in [Calls -> ConcArgs] :
          /\ \A c, d \in Calls : c # d => a[c].al # a[d].al
          /\ nlhs = [c \in Calls |-> a[c].nl]
          /\ prhs = [c \in Calls |-> a[c].al]
    /\ frame = [c \in Calls |-> Frame0]
    /\ plhs = [c \in Calls |-> <<<<>>, <<>>>>]
    /\ msg = [c \in Calls |-> Msg0]
    /\ calls = [c \in Calls |-> <<>>]
    /\ ext = [c \in Calls |-> Ext0]

SpecConc == ConcInit /\ [][Next]_vars

(* mexFunction run from its first line to its last on the argument list al *)
(* with nl outputs, given the environment's answers e                      *)
AloneLookup(al) == Len(al) < 4 \/ mxIsEmpty(al[EmptyArgIndex + 1])

AlonePole(al, e) == IF AloneLookup(al) THEN e.eop[1].pole ELSE e.stray[1]

AloneErr(nl, al, e) ==
    IF Len(al) < 3 \/ Len(al) > 4 THEN "Wrong number of inputs"
    ELSE IF nl > 2 THEN "Wrong number of outputs."
    ELSE IF ~IsRealDouble(al[1]) THEN "checkRealDoubleArray"
    ELSE IF ~(mxGetM(al[1]) = 3 \/ mxGetM(al[1]) = 6)
    THEN "The input vector has a bad dimensionality."
    ELSE IF AloneLookup(al)
    THEN IF e.tai[1] # 0 THEN "An error occurred computing TAI."
         ELSE IF e.utc[1] = -1 THEN "Unacceptable date entered"
         ELSE IF e.eop[1].throws THEN "getEOP"
         ELSE IF ~IsRealDouble(e.eop[1].pole) THEN "checkRealDoubleArray"
         ELSE IF mxGetM(e.eop[1].pole) # 2 \/ mxGetN(e.eop[1].pole) # 1
         THEN "Error using the getEOP function."
         ELSE ""
    ELSE IF e.stray[1].cls = "wild" THEN "segmentation violation"
         ELSE IF ~IsRealDouble(e.stray[1]) THEN "checkRealDoubleArray"
         ELSE IF mxGetM(e.stray[1]) * mxGetN(e.stray[1]) = 2
                   /\ mxGetM(e.stray[1]) \in {1, 2}
         THEN ""
         ELSE "The celestial pole offsets have the wrong dimensionality."

AloneWarn(al, e) ==
    IF Len(al) \in {3, 4} /\ AloneLookup(al) /\ e.utc = <<1>>
    THEN <<"Dubious Date entered.">> ELSE <<>>

AloneRot(al, e) ==
    LET xys == iauXys06a(getDoubleFromMatlab(al[2]), getDoubleFromMatlab(al[3]))
        p == mxGetData(AlonePole(al, e))
    IN  iauTr(iauC2ixys(xys.x + p[1], xys.y + p[2], xys.s))

AloneOut(nl, al, e) ==
    IF AloneErr(nl, al, e) # "" THEN <<<<>>, <<>>>>
    ELSE LET R == AloneRot(al, e)
             d == mxGetM(al[1])
             in == mxGetData(al[1])
             vec == DoubleArr(d, mxGetN(al[1]),
                        [k \in 1..Len(in) |->
                            iauRxp(R, Load3(in, 3 * ((k - 1) \div 3)))[((k - 1) % 3) + 1]])
             rot == DoubleArr(3, 3, [k \in 1..9 |-> R[((k - 1) % 3) + 1][((k - 1) \div 3) + 1]])
         IN  <<<<vec>>, IF nl > 1 THEN <<rot>> ELSE <<>>>>

---------------------------------------------------------------------------
(* Vocabulary of the properties *)

Unassigned == <<<<>>, <<>>>>

Resolved == {"build", "alloc", "loop", "rot", "done"}

Ran(c, name) == \E k \in 1..Len(calls[c]) : calls[c][k] = name

Count(c, name) == Cardinality({k \in 1..Len(calls[c]) : calls[c][k] = name})

\* the call was made with a non-empty fourth argument
ExplicitOffsets(c) == Len(prhs[c]) >= 4 /\ ~mxIsEmpty(prhs[c][4])

LookupPath(c) == Len(prhs[c]) \in {3, 4} /\ ~ExplicitOffsets(c)

BadDimension(c) == Len(prhs[c]) >= 1 /\ mxGetM(prhs[c][1]) \notin {3, 6}

BadPoleShape(c) == ExplicitOffsets(c) /\ mxGetM(prhs[c][4]) * mxGetN(prhs[c][4]) # 2

\* Matlab's A(i,j), 1 <= i <= m, of a column-major array
MatElem(a, i, j) == a.data[i + a.m * (j - 1)]

---------------------------------------------------------------------------
(* C1: a batch whose row count is not 3 or 6, or an explicit pole-offset   *)
(* argument that does not hold exactly 2 values, ends the call in an error *)
(* before any computation: no library routine has run, no output buffer    *)
(* exists and nothing is assigned to the caller's outputs.                 *)
C1_InputErrorBeforeComputation ==
    \A c \in Calls :
        (BadDimension(c) \/ BadPoleShape(c)) =>
            /\ pc[c] \in {"start", "offsets", "error"}
            /\ calls[c] = <<>>
            /\ frame[c].retMat = <<>>
            /\ plhs[c] = Unassigned

(* C2: with a non-empty fourth argument, dX and dY are the two values of   *)
(* that argument, every argument read lies inside the argument list, and   *)
(* none of TT->TAI, TAI->UTC, getEOP has run; otherwise dX and dY are the  *)
(* pair getEOP returned.                                                   *)
C2_ExplicitOffsetsOverride ==
    \A c \in Calls :
        pc[c] \in Resolved =>
            IF ExplicitOffsets(c)
            THEN /\ frame[c].dX = <<mxGetData(prhs[c][4])[1]>>
                 /\ frame[c].dY = <<mxGetData(prhs[c][4])[2]>>
                 /\ \A k \in ext[c].read : k < Len(prhs[c])
                 /\ ~Ran(c, "iauTttai") /\ ~Ran(c, "iauTaiutc") /\ ~Ran(c, "getEOP")
            ELSE /\ ext[c].eop # <<>>
                 /\ frame[c].dX = <<mxGetData(ext[c].eop[1].pole)[1]>>
                 /\ frame[c].dY = <<mxGetData(ext[c].eop[1].pole)[2]>>

(* C3: every call that ends in an error has assigned neither the output    *)
(* batch nor the rotation matrix to the caller's outputs, has allocated no *)
(* output buffer and has transformed no vector.                            *)
C3_ErrorMeansNoOutput ==
    \A c \in Calls :
        (pc[c] = "error" \/ msg[c].err # "") =>
            /\ pc[c] = "error" /\ msg[c].err # ""
            /\ plhs[c] = Unassigned
            /\ frame[c].retMat = <<>>
            /\ ~Ran(c, "iauRxp")
            /\ frame[c].curVec = <<>>

C3_Witness ==
    \E c \in Calls :
        /\ pc[c] = "error"
        /\ msg[c].err = "Error using the getEOP function."
        /\ mxGetN(prhs[c][1]) >= 2

(* C4: a TAI->UTC status of 1 (dubious) does not abort the call: the       *)
(* warning is raised, getEOP is keyed by the converted UTC date, only a    *)
(* failure of the lookup can still end the call in an error, and a call    *)
(* that completes has produced the output batch with the warning raised.   *)
C4_DubiousDateWarns ==
    \A c \in Calls :
        ext[c].utc = <<1>> =>
            /\ msg[c].warn = <<"Dubious Date entered.">>
            /\ pc[c] \in {"geteop", "error"} \cup Resolved
            /\ pc[c] = "error" => Ran(c, "getEOP")
            /\ ext[c].eopKey # <<>> =>
                   ext[c].eopKey = <<frame[c].TT1[1], frame[c].TT2[1] - TTMTAI - TAIMUTC>>
            /\ pc[c] = "done" => plhs[c][1] # <<>> /\ msg[c].err = ""

C4_Witness ==
    \E c \in Calls :
        /\ ext[c].utc = <<1>>
        /\ pc[c] = "done"
        /\ msg[c].warn # <<>>
        /\ plhs[c][1] # <<>>

\* row q of R times the three doubles at in+base
RowDot(R, q, in, base) == R[q][1] * in[base + 1] + R[q][2] * in[base + 2] + R[q][3] * in[base + 3]

(* C5: every slot i that has been transformed holds R * in_i in its first  *)
(* three components and, for a batch of dimension 6, R * in_i[3:6] with    *)
(* the same R in its last three, R being the call's one matrix CIRS2GCRS;  *)
(* the slots not yet transformed are untouched, and the finished batch is  *)
(* what the caller receives.                                               *)
C5_PerSlotTransform ==
    \A c \in Calls :
        frame[c].retMat # <<>> =>
            LET d == mxGetM(prhs[c][1])
                in == mxGetData(prhs[c][1])
                out == frame[c].retMat[1].data
                R == frame[c].CIRS2GCRS
            IN  /\ \A i \in 0..(mxGetN(prhs[c][1]) - 1) :
                       IF i < frame[c].curVec[1]
                       THEN /\ \A q \in 1..3 : out[d * i + q] = RowDot(R, q, in, d * i)
                            /\ d = 6 => \A q \in 1..3 : out[d * i + 3 + q] = RowDot(R, q, in, d * i + 3)
                       ELSE \A q \in 1..d : out[d * i + q] = 0
                /\ pc[c] \in {"rot", "done"} =>
                       /\ frame[c].curVec[1] = mxGetN(prhs[c][1])
                       /\ plhs[c][1] = frame[c].retMat

C5_Witness ==
    \E c \in Calls :
        /\ pc[c] = "done"
        /\ mxGetM(prhs[c][1]) = 6
        /\ mxGetN(prhs[c][1]) >= 2
        /\ prhs[c][1].data[1] # prhs[c][1].data[7]
        /\ plhs[c][1] # <<>>

(* C6: a call that completes has raised no error and returns a batch with  *)
(* the row count (3 or 6) and the column count N of the input batch, and a *)
(* buffer of exactly that size; this includes N = 0.                       *)
C6_DimensionPreserved ==
    \A c \in Calls :
        pc[c] = "done" =>
            /\ msg[c].err = ""
            /\ plhs[c][1] # <<>>
            /\ mxGetM(plhs[c][1][1]) = mxGetM(prhs[c][1])
            /\ mxGetM(plhs[c][1][1]) \in {3, 6}
            /\ mxGetN(plhs[c][1][1]) = mxGetN(prhs[c][1])
            /\ Len(mxGetData(plhs[c][1][1])) = mxGetM(prhs[c][1]) * mxGetN(prhs[c][1])
            /\ IsRealDouble(plhs[c][1][1])

C6_Witness ==
    \E c \in Calls :
        /\ pc[c] = "done"
        /\ mxGetN(prhs[c][1]) = 0
        /\ mxGetM(prhs[c][1]) = 6
        /\ plhs[c][1] = <<DoubleArr(6, 0, <<>>)>>

\* the matrix built from the date and the offsets in use
GOf(c) ==
    LET xys == iauXys06a(getDoubleFromMatlab(prhs[c][2]), getDoubleFromMatlab(prhs[c][3]))
    IN  iauC2ixys(xys.x + frame[c].dX[1], xys.y + frame[c].dY[1], xys.s)

(* C7: the matrix is built once per call; CIRS2GCRS is the transpose of    *)
(* the GCRS->CIRS matrix G; the 3x3 array returned on request has          *)
(* M(i,j) = G(j,i), and M is the matrix by which the batch was multiplied. *)
C7_InverseTranspose ==
    \A c \in Calls :
        /\ Count(c, "iauC2ixys") <= 1 /\ Count(c, "iauTr") <= 1
        /\ frame[c].CIRS2GCRS # <<>> =>
               /\ frame[c].GCRS2CIRS = GOf(c)
               /\ \A i, j \in 1..3 : frame[c].CIRS2GCRS[i][j] = frame[c].GCRS2CIRS[j][i]
        /\ plhs[c][2] # <<>> =>
               LET M == plhs[c][2][1]
                   d == mxGetM(prhs[c][1])
                   in == mxGetData(prhs[c][1])
                   out == plhs[c][1][1].data
               IN  /\ mxGetM(M) = 3 /\ mxGetN(M) = 3
                   /\ \A i, j \in 1..3 : MatElem(M, i, j) = frame[c].GCRS2CIRS[j][i]
                   /\ \A k \in 0..((Len(in) \div 3) - 1) : \A q \in 1..3 :
                          out[3 * k + q] = MatElem(M, q, 1) * in[3 * k + 1]
                                           + MatElem(M, q, 2) * in[3 * k + 2]
                                           + MatElem(M, q, 3) * in[3 * k + 3]
        /\ pc[c] = "done" => (plhs[c][2] # <<>> <=> nlhs[c] > 1)

C7_Witness ==
    \E c \in Calls :
        /\ pc[c] = "done"
        /\ nlhs[c] = 2
        /\ plhs[c][2] # <<>>
        /\ mxGetN(prhs[c][1]) >= 1
        /\ \E i, j \in 1..3 : frame[c].GCRS2CIRS[i][j] # frame[c].GCRS2CIRS[j][i]

\* an invocation that has ended has the outcome of mexFunction run alone
C8_OutcomeAsAlone ==
    \A c \in Calls :
        pc[c] \in {"done", "error"} =>
            /\ msg[c].err = AloneErr(nlhs[c], prhs[c], ext[c])
            /\ msg[c].warn = AloneWarn(prhs[c], ext[c])
            /\ plhs[c] = AloneOut(nlhs[c], prhs[c], ext[c])
            /\ (pc[c] = "done") = (msg[c].err = "")

(* C8: with the steps of two invocations interleaved in any order, each    *)
(* invocation that has ended has the error, the warning and the outputs    *)
(* that mexFunction run alone gives for its own arguments and its own      *)
(* environment answers, and no step changes any caller's arguments.        *)
C8_NoSharedState == []C8_OutcomeAsAlone /\ [][prhs' = prhs /\ nlhs' = nlhs]_vars

C8_Witness ==
    /\ \A c \in Calls : pc[c] = "done" /\ plhs[c][1] # <<>> /\ mxGetN(prhs[c][1]) >= 1
    /\ prhs[1] # prhs[2]
    /\ frame[1].CIRS2GCRS # frame[2].CIRS2GCRS

\* the routines of the lookup path up to the matrix, in program order
LookupOrder == <<"iauTttai", "iauTaiutc", "getEOP", "iauXys06a", "iauC2ixys", "iauTr">>

(* C9: on the lookup path the routines run in the order TT->TAI, TAI->UTC, *)
(* getEOP, matrix build, each at most once; a non-zero TT->TAI status or a *)
(* TAI->UTC status of -1 ends the call in an error at that step, with no   *)
(* later routine run; getEOP runs only after TAI->UTC answered 0 or 1.     *)
C9_LookupOrder ==
    \A c \in Calls :
        LookupPath(c) =>
            /\ \A k \in 1..Len(calls[c]) :
                   calls[c][k] = (IF k <= Len(LookupOrder) THEN LookupOrder[k] ELSE "iauRxp")
            /\ pc[c] \in Resolved => Len(calls[c]) >= 3
            /\ (ext[c].tai # <<>> /\ ext[c].tai # <<0>>) =>
                   /\ pc[c] = "error"
                   /\ msg[c].err = "An error occurred computing TAI."
                   /\ calls[c] = <<"iauTttai">>
            /\ ext[c].utc = <<-1>> =>
                   /\ pc[c] = "error"
                   /\ msg[c].err = "Unacceptable date entered"
                   /\ calls[c] = <<"iauTttai", "iauTaiutc">>
            /\ Ran(c, "getEOP") => ext[c].tai = <<0>> /\ ext[c].utc \in {<<0>>, <<1>>}

C9_Witness ==
    \E c \in Calls :
        /\ LookupPath(c)
        /\ ext[c].utc = <<-1>>
        /\ pc[c] = "error"
        /\ calls[c] = <<"iauTttai", "iauTaiutc">>

(* C10: of the getEOP response only the pole-offset part is used; unless   *)
(* that part is a real double 2x1 array the call ends in an error with dX  *)
(* and dY never assigned, no matrix built and no output, whether or not    *)
(* the dubious-date warning had been raised; a real double array of any    *)
(* shape other than 2x1 (1x2 included) is reported as a getEOP error.      *)
C10_MalformedEOPFatal ==
    \A c \in Calls :
        ext[c].eop # <<>> =>
            LET r == ext[c].eop[1]
            IN  IF ~r.throws /\ IsRealDouble(r.pole) /\ mxGetM(r.pole) = 2 /\ mxGetN(r.pole) = 1
                THEN /\ pc[c] \in Resolved
                     /\ frame[c].dX = <<mxGetData(r.pole)[1]>>
                     /\ frame[c].dY = <<mxGetData(r.pole)[2]>>
                ELSE /\ pc[c] = "error"
                     /\ (~r.throws /\ IsRealDouble(r.pole)) =>
                            msg[c].err = "Error using the getEOP function."
                     /\ frame[c].dX = <<>> /\ frame[c].dY = <<>>
                     /\ frame[c].GCRS2CIRS = <<>> /\ frame[c].CIRS2GCRS = <<>>
                     /\ ~Ran(c, "iauC2ixys")
                     /\ plhs[c] = Unassigned

C10_Witness ==
    \E c \in Calls :
        /\ ext[c].eop # <<>>
        /\ ~ext[c].eop[1].throws
        /\ ext[c].eop[1].pole = DoubleArr(1, 2, <<3, 4>>)
        /\ msg[c].warn # <<>>
        /\ msg[c].err = "Error using the getEOP function."

=============================================================================
